---------------------------- MODULE Spec2Model ----------------------------
(***************************************************************************)
(* Model of the pywikibot maintenance scripts:                             *)
(*   100Kanojo-CharacterLinkFix-Task.py  (CharacterLinkFixBot)             *)
(*   100Kanojo-SyncTemplate-Task.py      (TemplateSyncBot)                 *)
(*   LHMN-GithubSyncAsset-Task.py        (GitHub <-> wiki sync)            *)
(*                                                                         *)
(* Text is a sequence of one-character strings, so that str.strip,         *)
(* str.split, the link regular expression and the exception regular        *)
(* expressions of textlib.replaceExcept are computed character by          *)
(* character, as Python computes them.                                     *)
(***************************************************************************)
EXTENDS Integers, Sequences, FiniteSets, TLC

VARIABLES
    valid_names,    \* CharacterLinkFixBot.valid_names
    page,           \* the page the generator yields: [title, ns, text]
    run,            \* number of treat_page invocations so far
    original_text,  \* treat_page local, last invocation
    new_text,       \* treat_page local, last invocation
    calls,          \* replace_link calls of the last invocation
    puts,           \* put_current requests: <<[run, old, new]>>
    outcome         \* what the last invocation reported

botVars == <<valid_names, page, run, original_text, new_text, calls, puts, outcome>>

VARIABLES
    components,     \* the name under reversal, as it was put together
    full_name,      \* reverse_name's argument
    reversed        \* reverse_name's result, <<"?">> before the call

nameVars == <<components, full_name, reversed>>

VARIABLES
    script,         \* which loop runs: "github", "template" or "local"
    pass,           \* the run of the script, 1 the first
    repo,           \* GitHub: directory -> <<file_info>>
    srcwiki,        \* the source site of the template bot: title -> text
    wiki,           \* the target site: title -> text
    localfs,        \* LOCAL_SYNC_DIR: path -> text
    dirIdx,         \* GitHub: the directory of SYNC_DIRS being listed
    docs,           \* the documents of the loop that runs
    idx,            \* the next document of docs
    fault,          \* the failure the last step raised, "none" without one
    reported,       \* an except clause caught and reported that failure
    saves,          \* the writes of target pages: <<[pass, title, ...]>>
    aborted,        \* an exception left the loop
    savesOk,        \* every save attempted in the first pass succeeded
    firstPassClean  \* no step of the first pass failed or was declined

syncVars == <<script, pass, repo, srcwiki, wiki, localfs, dirIdx, docs, idx,
              fault, reported, saves, aborted, savesOk, firstPassClean>>

vars == <<botVars, nameVars, syncVars>>

-----------------------------------------------------------------------------
(* Bounds *)

\* pages carry at most this many link tokens between their wrappers
MaxLinks == 2
\* the script is run at most this many times over the same page
MaxRuns == 2

-----------------------------------------------------------------------------
(* Python str helpers *)

Whitespace == {" ", "\n"}

SetMin(S) == CHOOSE x \in S : \A y \in S : x <= y

SetMax(S) == CHOOSE x \in S : \A y \in S : x >= y

\* str.strip()
strip(s) ==
    LET keep == {i \in 1..Len(s) : s[i] \notin Whitespace}
    IN  IF keep = {} THEN <<>> ELSE SubSeq(s, SetMin(keep), SetMax(keep))

\* end of the maximal run of characters outside stop that starts at i
\* (i - 1 when s[i] is in stop or i is past the end)
RunEnd(s, i, stop) ==
    LET hits == {k \in i..Len(s) : s[k] \in stop}
    IN  IF hits = {} THEN Len(s) ELSE SetMin(hits) - 1

RECURSIVE SplitFrom(_, _)
SplitFrom(s, i) ==
    IF i > Len(s) THEN <<>>
    ELSE IF s[i] \in Whitespace THEN SplitFrom(s, i + 1)
    ELSE LET e == RunEnd(s, i, Whitespace)
         IN  <<SubSeq(s, i, e)>> \o SplitFrom(s, e + 1)

\* str.split() with no argument: split on runs of whitespace
split(s) == SplitFrom(s, 1)

RECURSIVE join(_, _)
\* sep.join(parts)
join(sep, parts) ==
    IF parts = <<>> THEN <<>>
    ELSE IF Len(parts) = 1 THEN parts[1]
    ELSE parts[1] \o sep \o join(sep, Tail(parts))

\* parts[::-1]
Reversed(parts) == [i \in 1..Len(parts) |-> parts[Len(parts) + 1 - i]]

\* a faulty variant: swaps the first two components only
reverse_name_swap2(name) ==
    LET parts == split(name)
    IN  IF Len(parts) >= 2
        THEN join(<<" ">>, <<parts[2], parts[1]>> \o SubSeq(parts, 3, Len(parts)))
        ELSE name

\* CharacterLinkFixBot.reverse_name
reverse_name(name) ==
    LET parts == split(name)
    IN  IF Len(parts) >= 2 THEN join(<<" ">>, Reversed(parts)) ELSE name

-----------------------------------------------------------------------------
(* The link regular expression of treat_page *)

\* pattern occurs in s at position i
MatchAt(s, i, pattern) ==
    /\ i >= 1
    /\ i + Len(pattern) - 1 <= Len(s)
    /\ \A k \in 1..Len(pattern) : s[i + k - 1] = pattern[k]

NoMatch == [start |-> 0, end |-> 0, g1 |-> <<>>, has3 |-> FALSE, g3 |-> <<>>]

\* link_pattern = \[\[([^\|\]]+)(\|([^\]]+))?\]\] anchored at i.  Both
\* character classes are greedy and are followed by a character they
\* exclude, so no shorter repetition can match.
LinkMatchAt(s, i) ==
    IF ~MatchAt(s, i, <<"[", "[">>) THEN NoMatch
    ELSE LET te == RunEnd(s, i + 2, {"|", "]"})
             le == RunEnd(s, te + 2, {"]"})
         IN  IF te < i + 2 THEN NoMatch
             ELSE IF MatchAt(s, te + 1, <<"|">>) /\ le >= te + 2
                     /\ MatchAt(s, le + 1, <<"]", "]">>)
             THEN [start |-> i, end |-> le + 2, g1 |-> SubSeq(s, i + 2, te),
                   has3 |-> TRUE, g3 |-> SubSeq(s, te + 2, le)]
             ELSE IF MatchAt(s, te + 1, <<"]", "]">>)
             THEN [start |-> i, end |-> te + 2, g1 |-> SubSeq(s, i + 2, te),
                   has3 |-> FALSE, g3 |-> <<>>]
             ELSE NoMatch

\* link_pattern.search(s, index): the leftmost match starting at or after index
LinkSearch(s, index) ==
    LET starts == {i \in index..Len(s) :
                     s[i] = "[" /\ LinkMatchAt(s, i).start # 0}
    IN  IF starts = {} THEN NoMatch ELSE LinkMatchAt(s, SetMin(starts))

-----------------------------------------------------------------------------
(* CharacterLinkFixBot.replace_link *)

\* a faulty variant: raw_target.split('#') without the limit, so the anchor ends
\* at the second '#'
SplitAnchorNoLimit(raw_target) ==
    LET hashes == {k \in 1..Len(raw_target) : raw_target[k] = "#"}
        later == {k \in hashes : k > SetMin(hashes)}
    IN  IF hashes = {} THEN [base |-> raw_target, anchor |-> <<>>]
        ELSE [base |-> SubSeq(raw_target, 1, SetMin(hashes) - 1),
              anchor |-> SubSeq(raw_target, SetMin(hashes),
                                IF later = {} THEN Len(raw_target)
                                ELSE SetMin(later) - 1)]

\* raw_target.split('#', 1), the anchor re-prefixed with '#'
SplitAnchor(raw_target) ==
    LET hashes == {k \in 1..Len(raw_target) : raw_target[k] = "#"}
    IN  IF hashes = {} THEN [base |-> raw_target, anchor |-> <<>>]
        ELSE [base |-> SubSeq(raw_target, 1, SetMin(hashes) - 1),
              anchor |-> SubSeq(raw_target, SetMin(hashes), Len(raw_target))]

\* a faulty variant: reverses every multi-component target, valid or not
NewBaseTargetAlways(base_target, names) ==
    reverse_name(base_target)

\* new_base_target: the reversed candidate when it is a valid name and
\* differs from the current target, else the current target
NewBaseTarget(base_target, names) ==
    LET reversed_candidate == reverse_name(base_target)
    IN  IF reversed_candidate \in names /\ reversed_candidate # base_target
        THEN reversed_candidate
        ELSE base_target

\* a faulty variant: always simplifies to the target-only form
UnchangedLinkDropLabel(full_match, final_target, base_target, has3, display_text) ==
    IF has3 THEN <<"[", "[">> \o final_target \o <<"]", "]">> ELSE full_match

\* the branch final_target == raw_target
UnchangedLink(full_match, final_target, base_target, has3, display_text) ==
    IF has3 /\ strip(display_text) = base_target
    THEN <<"[", "[">> \o final_target \o <<"]", "]">>
    ELSE full_match

\* a faulty variant: compares the label with the new target only
ConstructLinkNewOnly(final_target, base_target, new_base_target, has3, display_text) ==
    IF has3
    THEN IF strip(display_text) = new_base_target
         THEN <<"[", "[">> \o final_target \o <<"]", "]">>
         ELSE <<"[", "[">> \o final_target \o <<"|">> \o display_text \o <<"]", "]">>
    ELSE <<"[", "[">> \o final_target \o <<"]", "]">>

\* the branch that constructs the new link
ConstructLink(final_target, base_target, new_base_target, has3, display_text) ==
    IF has3
    THEN IF strip(display_text) = base_target
            \/ strip(display_text) = new_base_target
         THEN <<"[", "[">> \o final_target \o <<"]", "]">>
         ELSE <<"[", "[">> \o final_target \o <<"|">> \o display_text \o <<"]", "]">>
    ELSE <<"[", "[">> \o final_target \o <<"]", "]">>

replace_link(s, match, names) ==
    LET full_match == SubSeq(s, match.start, match.end)
        raw_target == strip(match.g1)
        parts == SplitAnchor(raw_target)
        base_target == parts.base
        anchor_part == parts.anchor
        new_base_target == NewBaseTarget(base_target, names)
        final_target == new_base_target \o anchor_part
    IN  IF final_target = raw_target
        THEN UnchangedLink(full_match, final_target, base_target,
                           match.has3, match.g3)
        ELSE ConstructLink(final_target, base_target, new_base_target,
                           match.has3, match.g3)

-----------------------------------------------------------------------------
(* textlib.replaceExcept, as treat_page calls it *)

\* <tag> ... </tag>, the shape of the nowiki, pre, source, syntaxhighlight
\* and math exception expressions
TagRegion(name) ==
    [open |-> <<"<">> \o name \o <<">">>, close |-> <<"<", "/">> \o name \o <<">">>]

\* ['comment', 'math', 'nowiki', 'pre', 'source', 'syntaxhighlight']
Exceptions ==
    { [open |-> <<"<", "!", "-", "-">>, close |-> <<"-", "-", ">">>],
      TagRegion(<<"m", "a", "t", "h">>),
      TagRegion(<<"n", "o", "w", "i", "k", "i">>),
      TagRegion(<<"p", "r", "e">>),
      TagRegion(<<"s", "o", "u", "r", "c", "e">>),
      TagRegion(<<"s", "y", "n", "t", "a", "x", "h", "i", "g", "h", "l", "i", "g", "h", "t">>) }

NoRegion == [start |-> 0, end |-> 0]

\* dontTouchR.search(s, index): the leftmost opening delimiter that has a
\* closing delimiter after it, up to the nearest such closing delimiter
RegionSearch(s, index, ex) ==
    LET opens == {i \in index..Len(s) :
                    s[i] = ex.open[1] /\ MatchAt(s, i, ex.open)}
        closesAfter(i) ==
            {c \in (i + Len(ex.open))..Len(s) : MatchAt(s, c, ex.close)}
        starts == {i \in opens : closesAfter(i) # {}}
    IN  IF starts = {} THEN NoRegion
        ELSE LET st == SetMin(starts)
             IN  [start |-> st,
                  end |-> SetMin(closesAfter(st)) + Len(ex.close) - 1]

\* the exception that occurs next
NextException(s, index) ==
    LET found == {r \in {RegionSearch(s, index, ex) : ex \in Exceptions} :
                    r.start # 0}
    IN  IF found = {} THEN NoRegion
        ELSE CHOOSE r \in found : \A q \in found : r.start <= q.start

RECURSIVE ReplaceFrom(_, _, _, _)
\* the loop of replaceExcept: a match is skipped when an exception starts
\* at or before it, the search resuming after the exception; otherwise the
\* match is replaced and the search resumes after the replacement
ReplaceFrom(s, index, names, log) ==
    LET match == LinkSearch(s, index)
        exc == NextException(s, index)
    IN  IF index > Len(s) \/ match.start = 0
        THEN [text |-> s, calls |-> log]
        ELSE IF exc.start # 0 /\ exc.start <= match.start
        THEN ReplaceFrom(s, exc.end + 1, names, log)
        ELSE LET replacement == replace_link(s, match, names)
                 call == [full |-> SubSeq(s, match.start, match.end),
                          g1 |-> match.g1, has3 |-> match.has3,
                          g3 |-> match.g3, out |-> replacement]
             IN  ReplaceFrom(SubSeq(s, 1, match.start - 1) \o replacement
                                \o SubSeq(s, match.end + 1, Len(s)),
                             match.start + Len(replacement),
                             names, Append(log, call))

replaceExcept(s, names) == ReplaceFrom(s, 1, names, <<>>)

-----------------------------------------------------------------------------
(* Inputs of the link fixer: name lists and pages *)

NameAB == <<"A", " ", "B">>
NameBA == <<"B", " ", "A">>
NameC == <<"C">>

\* get_valid_names: the names of MediaWiki:CharacterList; main aborts on an
\* empty set, so the bot only ever runs with a non-empty one
NameSets == { {NameBA}, {NameBA, NameAB} }

AnchorH == <<"#", "h", "#">> \o NameAB

CommentX == <<"<", "!", "-", "-", "x", "-", "-", ">">>

\* [[target]]
Link(target) == <<"[", "[">> \o target \o <<"]", "]">>

\* [[target|label]]
LinkL(target, label) == <<"[", "[">> \o target \o <<"|">> \o label \o <<"]", "]">>

\* the link tokens pages are written with: reversed, canonical and
\* one-component targets, with and without anchors, labels and padding
LinkTokens ==
    { Link(NameAB),
      Link(NameBA),
      LinkL(<<" ", "A", " ", " ", "B">>, <<"x">>),
      LinkL(NameAB, <<" ">> \o NameBA \o <<" ">>),
      LinkL(NameBA, <<" ">> \o NameBA \o <<" ">>),
      Link(NameAB \o AnchorH),
      LinkL(NameAB \o AnchorH, NameAB),
      LinkL(NameC \o AnchorH, <<" ", "C", " ">>),
      LinkL(NameBA \o <<"#", "h">>, <<"x">>),
      LinkL(NameC \o CommentX, NameC \o CommentX) }

RECURSIVE Concat(_)
Concat(seqs) == IF seqs = <<>> THEN <<>> ELSE Head(seqs) \o Concat(Tail(seqs))

\* what surrounds the link tokens of a page
Wrappers ==
    { [pre |-> <<>>, post |-> <<>>],
      [pre |-> <<"<", "!", "-", "-">>, post |-> <<"-", "-", ">">>],
      [pre |-> <<"<", "n", "o", "w", "i", "k", "i", ">">>,
       post |-> <<"<", "/", "n", "o", "w", "i", "k", "i", ">">>],
      [pre |-> <<"<", "!", "-", "-", "[", "[">> \o NameAB \o <<"]", "]", "-", "-", ">">>,
       post |-> <<"x">>],
      [pre |-> <<"<", "!", "-", "-">>, post |-> <<>>] }

LinkSeqs == UNION { [1..n -> LinkTokens] : n \in 0..MaxLinks }

Texts == { w.pre \o Concat(ls) \o w.post : w \in Wrappers, ls \in LinkSeqs }

MainPage == "Main Page"

\* the pages a generator can yield: articles, the main page, a talk page
Pages ==
    { [title |-> "Chapter 1", ns |-> 0, text |-> t] : t \in Texts }
    \cup { [title |-> MainPage, ns |-> 0, text |-> <<"[", "[">> \o NameAB \o <<"]", "]">>],
           [title |-> "Talk:Chapter 1", ns |-> 1,
            text |-> <<"[", "[">> \o NameAB \o <<"]", "]">>] }

-----------------------------------------------------------------------------
(* CharacterLinkFixBot.treat_page *)

\* a faulty variant: saves whatever the transformation returns
ShouldPutAlways(new, original) == TRUE

\* if new_text != original_text
ShouldPut(new, original) == new # original

BotIdle ==
    /\ valid_names = {}
    /\ page = [title |-> "", ns |-> 0, text |-> <<>>]
    /\ run = MaxRuns
    /\ outcome = "none"
    /\ original_text = <<>>
    /\ new_text = <<>>
    /\ calls = <<>>
    /\ puts = <<>>

NameIdle ==
    /\ components = [lead |-> <<>>, words |-> <<>>, seps |-> <<>>, trail |-> <<>>]
    /\ full_name = <<>>
    /\ reversed = <<>>

SyncIdle ==
    /\ script = "none"
    /\ pass = 0
    /\ repo = <<>>
    /\ srcwiki = <<>>
    /\ wiki = <<>>
    /\ localfs = <<>>
    /\ dirIdx = 0
    /\ docs = <<>>
    /\ idx = 1
    /\ fault = "none"
    /\ reported = FALSE
    /\ saves = <<>>
    /\ aborted = FALSE
    /\ savesOk = TRUE
    /\ firstPassClean = TRUE

Init ==
    /\ valid_names \in NameSets
    /\ page \in Pages
    /\ run = 0
    /\ outcome = "none"
    /\ original_text = <<>>
    /\ new_text = <<>>
    /\ calls = <<>>
    /\ puts = <<>>
    /\ NameIdle
    /\ SyncIdle

\* one invocation of treat_page on the current page; put_current saves the
\* text or, when the operator declines the prompt, leaves the page alone
TreatPage ==
    /\ run < MaxRuns
    /\ run' = run + 1
    /\ IF page.title = MainPage
       THEN /\ outcome' = "skip_main"
            /\ UNCHANGED <<page, original_text, new_text, calls, puts>>
       ELSE IF page.ns # 0
       THEN /\ outcome' = "skip_ns"
            /\ UNCHANGED <<page, original_text, new_text, calls, puts>>
       ELSE \E r \in {replaceExcept(page.text, valid_names)} :
                /\ original_text' = page.text
                /\ new_text' = r.text
                /\ calls' = r.calls
                /\ IF ShouldPut(r.text, page.text)
                   THEN \E accepted \in BOOLEAN :
                          /\ puts' = Append(puts, [run |-> run + 1,
                                                   old |-> page.text,
                                                   new |-> r.text])
                          /\ page' = [page EXCEPT
                                        !.text = IF accepted THEN r.text ELSE @]
                          /\ outcome' = IF accepted THEN "saved" ELSE "declined"
                   ELSE /\ outcome' = "nochange"
                        /\ UNCHANGED <<page, puts>>
    /\ UNCHANGED <<valid_names, nameVars, syncVars>>

Next == TreatPage

Spec == Init /\ [][Next]_vars

-----------------------------------------------------------------------------
(* reverse_name on names put together from components *)

\* names have at most this many components
MaxWords == 3

Words == { <<"A">>, <<"B">>, <<"C", "d">> }

Separators == { <<" ">>, <<" ", " ">>, <<"\n", " ">> }

Pads == { <<>>, <<" ">> }

RECURSIVE Interleave(_, _)
\* words[1] seps[1] words[2] ... words[n]
Interleave(words, seps) ==
    IF words = <<>> THEN <<>>
    ELSE IF Len(words) = 1 THEN words[1]
    ELSE words[1] \o seps[1] \o Interleave(Tail(words), Tail(seps))

NameParts ==
    UNION { [lead : Pads, words : [1..n -> Words],
             seps : [1..(IF n = 0 THEN 0 ELSE n - 1) -> Separators], trail : Pads] :
            n \in 0..MaxWords }

NameInit ==
    /\ components \in NameParts
    /\ full_name = components.lead \o Interleave(components.words, components.seps)
                     \o components.trail
    /\ reversed = <<"?">>
    /\ BotIdle
    /\ SyncIdle

ReverseName ==
    /\ reversed = <<"?">>
    /\ reversed' = reverse_name(full_name)
    /\ UNCHANGED <<components, full_name, botVars, syncVars>>

NameNext == ReverseName

SpecName == NameInit /\ [][NameNext]_vars

-----------------------------------------------------------------------------
(* Reading a link token back: what the properties compare *)

\* position of the first ch in s, 0 when there is none
FirstIndex(s, ch) ==
    LET at == {k \in 1..Len(s) : s[k] = ch}
    IN  IF at = {} THEN 0 ELSE SetMin(at)

\* the text between the brackets of a token
TokenInner(tok) == SubSeq(tok, 3, Len(tok) - 2)

TokenHasLabel(tok) == FirstIndex(TokenInner(tok), "|") # 0

\* the trimmed target of a token
TokenTarget(tok) ==
    LET inner == TokenInner(tok)
        p == FirstIndex(inner, "|")
    IN  strip(IF p = 0 THEN inner ELSE SubSeq(inner, 1, p - 1))

TokenLabel(tok) ==
    LET inner == TokenInner(tok)
    IN  SubSeq(inner, FirstIndex(inner, "|") + 1, Len(inner))

\* the part of a target before its first '#'
BeforeHash(t) ==
    IF FirstIndex(t, "#") = 0 THEN t ELSE SubSeq(t, 1, FirstIndex(t, "#") - 1)

\* the part of a target after its first '#'
AfterHash(t) == SubSeq(t, FirstIndex(t, "#") + 1, Len(t))

\* the base of the token a replace_link call was given
CallBase(c) == BeforeHash(strip(c.g1))

\* the call's target has a valid reversal
CallValid(c) ==
    /\ reverse_name(CallBase(c)) \in valid_names
    /\ reverse_name(CallBase(c)) # CallBase(c)

\* the target the call is expected to emit
CallFinalTarget(c) ==
    (IF CallValid(c) THEN reverse_name(CallBase(c)) ELSE CallBase(c))
        \o (IF FirstIndex(strip(c.g1), "#") = 0 THEN <<>>
            ELSE <<"#">> \o AfterHash(strip(c.g1)))

Treated == outcome \in {"saved", "declined", "nochange"}

AllCalls == {calls[i] : i \in DOMAIN calls}

RECURSIVE RegionsFrom(_, _)
\* the protected regions of s from index on, left to right
RegionsFrom(s, index) ==
    LET r == NextException(s, index)
    IN  IF index > Len(s) \/ r.start = 0 THEN <<>>
        ELSE <<SubSeq(s, r.start, r.end)>> \o RegionsFrom(s, r.end + 1)

Occurrences(seq, x) == Cardinality({i \in DOMAIN seq : seq[i] = x})

-----------------------------------------------------------------------------
(* Properties of the link fixer *)

\* C1: the transformation is idempotent: transforming the text that
\* treat_page produced gives that same text again.
C1_Idempotent ==
    Treated => replaceExcept(new_text, valid_names).text = new_text

\* C2: every protected region of the page text appears in the transformed
\* text byte for byte, as often as in the original.
C2_RegionsIntact ==
    Treated =>
      LET before == RegionsFrom(original_text, 1)
          after == RegionsFrom(new_text, 1)
      IN  \A i \in DOMAIN before :
            Occurrences(after, before[i]) >= Occurrences(before, before[i])

C4_AnchorKept ==
    \A c \in AllCalls :
      FirstIndex(strip(c.g1), "#") # 0 =>
        LET t == TokenTarget(c.out)
        IN  /\ FirstIndex(t, "#") # 0
            /\ BeforeHash(t) \in {CallBase(c), reverse_name(CallBase(c))}
            /\ AfterHash(t) = AfterHash(strip(c.g1))

C4_Witness ==
    /\ Treated
    /\ \E c \in AllCalls :
         /\ CallValid(c) /\ c.has3
         /\ FirstIndex(AfterHash(strip(c.g1)), "#") # 0
    /\ \E c \in AllCalls : ~CallValid(c) /\ FirstIndex(strip(c.g1), "#") # 0

\* C5: when the target is rewritten, a label is dropped exactly when its
\* trimmed text is the old or the new base; any other label is kept as it
\* was beside the new target; without a label the target-only form is emitted.
C5_LabelOnRewrite ==
    \A c \in AllCalls :
      CallValid(c) =>
        IF c.has3 /\ strip(c.g3) \notin {CallBase(c), reverse_name(CallBase(c))}
        THEN c.out = LinkL(CallFinalTarget(c), c.g3)
        ELSE c.out = Link(CallFinalTarget(c))

C5_Witness ==
    /\ Treated
    /\ \E c \in AllCalls :
         /\ CallValid(c) /\ c.has3 /\ ~TokenHasLabel(c.out)
         /\ strip(c.g3) = CallBase(c)
    /\ \E c \in AllCalls : CallValid(c) /\ c.has3 /\ TokenHasLabel(c.out)

\* C6: when the target is not rewritten the token is emitted verbatim,
\* unless its trimmed label equals the base: then the target-only form is
\* emitted and the page text counts as changed.  A page with no valid
\* reversal and no redundant label comes out as it went in and is not saved.
C6_VerbatimUnlessRedundant ==
    /\ \A c \in AllCalls :
         ~CallValid(c) =>
           IF c.has3 /\ strip(c.g3) = CallBase(c)
           THEN /\ c.out = Link(strip(c.g1))
                /\ c.out # c.full
                /\ new_text # original_text
           ELSE c.out = c.full
    /\ (Treated /\ \A c \in AllCalls :
                     ~CallValid(c) /\ ~(c.has3 /\ strip(c.g3) = CallBase(c)))
         => new_text = original_text /\ outcome = "nochange"

C6_Witness ==
    /\ outcome = "saved"
    /\ \E c \in AllCalls : ~CallValid(c) /\ c.has3 /\ strip(c.g3) = CallBase(c)
    /\ \E c \in AllCalls : ~CallValid(c) /\ c.has3 /\ c.out = c.full

\* C9: treat_page requests at most one save per invocation, and only of a
\* text that differs from the page's text; the main page, pages outside
\* namespace 0 and pages the transformation leaves alone are never saved.
C9_SaveOnlyWhenChanged ==
    /\ \A i \in DOMAIN puts : puts[i].new # puts[i].old
    /\ \A i, j \in DOMAIN puts : puts[i].run = puts[j].run => i = j
    /\ (page.title = MainPage \/ page.ns # 0) => puts = <<>>
    /\ (Treated /\ new_text = original_text) =>
         \A i \in DOMAIN puts : puts[i].run # run
    /\ outcome \in {"saved", "declined"} <=>
         (\E i \in DOMAIN puts : puts[i].run = run)

C9_Witness ==
    /\ run = MaxRuns
    /\ outcome = "nochange"
    /\ Len(puts) = 1
    /\ puts[1].new = page.text

-----------------------------------------------------------------------------
(* Property of reverse_name *)

\* C7: a name of fewer than two components is returned as it is, padding
\* included; otherwise all components come back in reverse order, joined
\* by single spaces.
C7_FullReversal ==
    reversed # <<"?">> =>
      LET w == components.words
          n == Len(w)
      IN  IF n < 2 THEN reversed = full_name
          ELSE reversed = Interleave([i \in 1..n |-> w[n + 1 - i]],
                                     [i \in 1..(n - 1) |-> <<" ">>])

C7_Witness ==
    /\ reversed # <<"?">>
    /\ Len(components.words) = 3
    /\ components.words[1] # components.words[3]
    /\ components.lead # <<>>
    /\ components.seps[1] # <<" ">>

-----------------------------------------------------------------------------
(* LHMN-GithubSyncAsset-Task.py: paths and titles *)

\* a directory listing of the repository holds at most this many entries
MaxFiles == 2
\* the mapping page holds at most this many template pairs
MaxPairs == 2
\* a script is run at most this many times in a row
MaxPasses == 2

\* str.find, 1-based, 0 when ch does not occur
find(s, ch) ==
    LET at == {k \in 1..Len(s) : s[k] = ch}
    IN  IF at = {} THEN 0 ELSE SetMin(at)

RECURSIVE SplitOn(_, _)
\* str.split(ch)
SplitOn(s, ch) ==
    IF find(s, ch) = 0 THEN <<s>>
    ELSE <<SubSeq(s, 1, find(s, ch) - 1)>>
           \o SplitOn(SubSeq(s, find(s, ch) + 1, Len(s)), ch)

\* str.endswith
endswith(s, suffix) ==
    /\ Len(s) >= Len(suffix)
    /\ SubSeq(s, Len(s) - Len(suffix) + 1, Len(s)) = suffix

StrMediaWiki == <<"M", "e", "d", "i", "a", "W", "i", "k", "i">>
StrModule == <<"M", "o", "d", "u", "l", "e">>
DotLua == <<".", "l", "u", "a">>

SYNC_DIRS == <<StrMediaWiki, StrModule>>

convert_path_to_title(file_path) ==
    LET parts == SplitOn(file_path, "/")
    IN  IF Len(parts) # 2 THEN <<>>
        ELSE IF parts[1] = StrMediaWiki THEN StrMediaWiki \o <<":">> \o parts[2]
        ELSE IF parts[1] = StrModule
        THEN StrModule \o <<":">>
               \o (IF endswith(parts[2], DotLua)
                   THEN SubSeq(parts[2], 1, Len(parts[2]) - 4)
                   ELSE parts[2])
        ELSE <<>>

convert_title_to_path(page_title) ==
    LET parts == SplitOn(page_title, ":")
    IN  IF Len(parts) # 2 THEN <<>>
        ELSE IF parts[1] = StrMediaWiki THEN StrMediaWiki \o <<"/">> \o parts[2]
        ELSE IF parts[1] = StrModule
        THEN StrModule \o <<"/">> \o parts[2] \o DotLua
        ELSE <<>>

-----------------------------------------------------------------------------
(* Inputs of the sync scripts *)

Absent == "<absent>"

Contents == {"", "v1"}

StoredTexts == Contents \cup {Absent}

\* page.text: the empty string for a page that does not exist
TextOf(store, title) == IF store[title] = Absent THEN "" ELSE store[title]

PathCss == StrMediaWiki \o <<"/", "C", ".", "c", "s", "s">>
PathFLua == StrModule \o <<"/", "F">> \o DotLua
PathF == StrModule \o <<"/", "F">>
PathSub == StrModule \o <<"/", "s", "u", "b">>
PathG == StrModule \o <<"/", "G">> \o DotLua

\* entries of the GitHub contents API
FileInfo(type, path, url, content) ==
    [type |-> type, path |-> path, download_url |-> url, content |-> content]

MediaWikiEntries == { FileInfo("file", PathCss, TRUE, c) : c \in Contents }

ModuleEntries ==
    { FileInfo("file", PathFLua, TRUE, c) : c \in Contents }
    \cup { FileInfo("file", PathF, TRUE, c) : c \in Contents }
    \cup { FileInfo("dir", PathSub, FALSE, ""), FileInfo("file", PathG, FALSE, "") }

\* listings of at most n entries with pairwise distinct paths
Listings(entries, n) ==
    UNION { { l \in [1..k -> entries] :
                \A i, j \in 1..k : l[i].path = l[j].path => i = j } :
            k \in 0..n }

Repos ==
    { (StrMediaWiki :> m) @@ (StrModule :> l) :
        m \in Listings(MediaWikiEntries, 1), l \in Listings(ModuleEntries, MaxFiles) }

GithubTitles == { convert_path_to_title(q) : q \in {PathCss, PathFLua, PathF} }

\* the pages of namespaces 8 and 828, in the order allpages yields them
LocalTitles ==
    << StrMediaWiki \o <<":", "C", ".", "c", "s", "s">>,
       StrMediaWiki \o <<":", "G", ":", "x">>,
       StrModule \o <<":", "F">> >>

LocalTitleSet == {LocalTitles[i] : i \in DOMAIN LocalTitles}

LocalPaths == { convert_title_to_path(t) : t \in LocalTitleSet } \ { <<>> }

SourceTitles == {"Infobox", "Navbox"}

TargetTitles == {"Thong tin", "Dieu huong"}

\* load_mappings: the pairs of the mapping page
Mappings == UNION { [1..k -> SourceTitles \X TargetTitles] : k \in 0..MaxPairs }

-----------------------------------------------------------------------------
(* The loops of the sync scripts *)

SyncCommonInit ==
    /\ pass = 1
    /\ dirIdx = 0
    /\ idx = 1
    /\ fault = "none"
    /\ reported = FALSE
    /\ saves = <<>>
    /\ aborted = FALSE
    /\ savesOk = TRUE
    /\ firstPassClean = TRUE
    /\ BotIdle
    /\ NameIdle

GithubInit ==
    /\ script = "github"
    /\ repo \in Repos
    /\ wiki \in [GithubTitles -> StoredTexts]
    /\ srcwiki = <<>>
    /\ localfs = <<>>
    /\ docs = <<>>

TemplateInit ==
    /\ script = "template"
    /\ docs \in Mappings
    /\ srcwiki \in [SourceTitles -> StoredTexts]
    /\ wiki \in [TargetTitles -> StoredTexts]
    /\ repo = <<>>
    /\ localfs = <<>>

LocalInit ==
    /\ script = "local"
    /\ wiki \in [LocalTitleSet -> StoredTexts]
    /\ docs = SelectSeq(LocalTitles, LAMBDA t : wiki[t] # Absent)
    /\ localfs = [q \in LocalPaths |-> Absent]
    /\ repo = <<>>
    /\ srcwiki = <<>>

SyncInit == SyncCommonInit /\ (GithubInit \/ TemplateInit \/ LocalInit)

\* an except clause caught the failure and pywikibot.error reported it
Caught(failure) ==
    /\ fault' = failure
    /\ reported' = TRUE
    /\ firstPassClean' = (firstPassClean /\ pass # 1)

\* the step raised nothing
Quiet ==
    /\ fault' = "none"
    /\ reported' = FALSE
    /\ UNCHANGED firstPassClean

SaveFailed == savesOk' = (savesOk /\ pass # 1)

SaveRecord(title, content) ==
    [pass |-> pass, title |-> title, before |-> wiki[title], text |-> content]

\* fetch_github_directory_contents for the next directory of SYNC_DIRS: a
\* request failure is reported and yields the empty list
FetchDirectory ==
    /\ script = "github"
    /\ idx > Len(docs)
    /\ dirIdx < Len(SYNC_DIRS)
    /\ dirIdx' = dirIdx + 1
    /\ idx' = 1
    /\ \E ok \in BOOLEAN :
         IF ok THEN docs' = repo[SYNC_DIRS[dirIdx + 1]] /\ Quiet
         ELSE docs' = <<>> /\ Caught("fetch")
    /\ UNCHANGED <<script, pass, repo, srcwiki, wiki, localfs, saves, aborted,
                   savesOk, botVars, nameVars>>

\* a faulty variant: the page is written whatever it holds
GithubUpToDateNever(store, title, content) == FALSE

\* page.exists() and page.text == github_content
GithubUpToDate(store, title, content) ==
    store[title] # Absent /\ store[title] = content

\* the body of the file loop of sync_github_to_wiki; all its I/O is inside
\* the try, and the three except clauses cover what it raises
SyncFile ==
    /\ script = "github"
    /\ idx <= Len(docs)
    /\ idx' = idx + 1
    /\ LET file_info == docs[idx]
           page_title == convert_path_to_title(file_info.path)
       IN  IF file_info.type # "file" \/ page_title = <<>>
              \/ ~file_info.download_url
           THEN Quiet /\ UNCHANGED <<wiki, saves, savesOk>>
           ELSE \E raised \in {"none", "download", "page_read", "save_locked",
                              "save_error"} :
                  IF raised \in {"download", "page_read"}
                  THEN Caught(raised) /\ UNCHANGED <<wiki, saves, savesOk>>
                  ELSE IF GithubUpToDate(wiki, page_title, file_info.content)
                  THEN raised = "none" /\ Quiet /\ UNCHANGED <<wiki, saves, savesOk>>
                  ELSE IF raised = "none"
                  THEN /\ wiki' = [wiki EXCEPT ![page_title] = file_info.content]
                       /\ saves' = Append(saves, SaveRecord(page_title,
                                                            file_info.content))
                       /\ Quiet
                       /\ UNCHANGED savesOk
                  ELSE Caught(raised) /\ SaveFailed /\ UNCHANGED <<wiki, saves>>
    /\ UNCHANGED <<script, pass, repo, srcwiki, localfs, dirIdx, docs, aborted,
                   botVars, nameVars>>

\* if target_page.exists(): if target_page.text == source_content: return
TemplateUpToDate(store, title, content) ==
    store[title] # Absent /\ store[title] = content

\* TemplateSyncBot.treat for the next pair, driven by BaseBot.run, which
\* lets an exception of treat end the run.  source_page.exists() is called
\* before the try; userPut saves nothing when the texts are equal or the
\* operator declines, and reports a save-related error itself
Treat ==
    /\ script = "template"
    /\ ~aborted
    /\ idx <= Len(docs)
    /\ idx' = idx + 1
    /\ LET source_title == docs[idx][1]
           target_title == docs[idx][2]
           source_content == srcwiki[source_title]
       IN  \E raised \in {"none", "source_exists", "source_text", "target_read",
                         "save_locked", "server_error", "declined"} :
             IF raised = "source_exists"
             THEN /\ aborted' = TRUE
                  /\ fault' = raised
                  /\ reported' = FALSE
                  /\ firstPassClean' = (firstPassClean /\ pass # 1)
                  /\ UNCHANGED <<wiki, saves, savesOk>>
             ELSE IF source_content = Absent
             THEN raised = "none" /\ Quiet
                  /\ UNCHANGED <<wiki, saves, savesOk, aborted>>
             ELSE IF raised \in {"source_text", "target_read"}
             THEN Caught(raised) /\ UNCHANGED <<wiki, saves, savesOk, aborted>>
             ELSE IF TemplateUpToDate(wiki, target_title, source_content)
                     \/ TextOf(wiki, target_title) = source_content
             THEN raised = "none" /\ Quiet
                  /\ UNCHANGED <<wiki, saves, savesOk, aborted>>
             ELSE IF raised = "declined"
             THEN /\ firstPassClean' = (firstPassClean /\ pass # 1)
                  /\ SaveFailed
                  /\ fault' = "none"
                  /\ reported' = FALSE
                  /\ UNCHANGED <<wiki, saves, aborted>>
             ELSE IF raised \in {"save_locked", "server_error"}
             THEN Caught(raised) /\ SaveFailed /\ UNCHANGED <<wiki, saves, aborted>>
             ELSE /\ wiki' = [wiki EXCEPT ![target_title] = source_content]
                  /\ saves' = Append(saves, SaveRecord(target_title,
                                                       source_content))
                  /\ Quiet
                  /\ UNCHANGED <<savesOk, aborted>>
    /\ UNCHANGED <<script, pass, repo, srcwiki, localfs, dirIdx, docs,
                   botVars, nameVars>>

\* the body of the page loop of sync_wiki_to_local; open(..., 'w') empties
\* the file before page.text is read
SaveLocal ==
    /\ script = "local"
    /\ idx <= Len(docs)
    /\ idx' = idx + 1
    /\ LET page_title == docs[idx]
           local_filepath == convert_title_to_path(page_title)
       IN  IF local_filepath = <<>>
           THEN Quiet /\ UNCHANGED localfs
           ELSE \E raised \in {"none", "makedirs", "open", "page_text", "write"} :
                  IF raised = "none"
                  THEN /\ localfs' = [localfs EXCEPT
                                        ![local_filepath] = wiki[page_title]]
                       /\ Quiet
                  ELSE IF raised \in {"makedirs", "open"}
                  THEN Caught(raised) /\ UNCHANGED localfs
                  ELSE /\ localfs' = [localfs EXCEPT ![local_filepath] = ""]
                       /\ Caught(raised)
    /\ UNCHANGED <<script, pass, repo, srcwiki, wiki, dirIdx, docs, saves,
                   aborted, savesOk, botVars, nameVars>>

\* the loop of the running script has gone through its documents
LoopFinished ==
    /\ idx > Len(docs)
    /\ script = "github" => dirIdx = Len(SYNC_DIRS)

\* the script is started again against the same sources
Rerun ==
    /\ script \in {"github", "template", "local"}
    /\ ~aborted
    /\ LoopFinished
    /\ pass < MaxPasses
    /\ pass' = pass + 1
    /\ idx' = 1
    /\ dirIdx' = 0
    /\ docs' = IF script = "github" THEN <<>> ELSE docs
    /\ UNCHANGED <<script, repo, srcwiki, wiki, localfs, fault, reported,
                   saves, aborted, savesOk, firstPassClean, botVars, nameVars>>

SyncNext == FetchDirectory \/ SyncFile \/ Treat \/ SaveLocal \/ Rerun

SpecSync == SyncInit /\ [][SyncNext]_vars

-----------------------------------------------------------------------------
(* Properties of the sync scripts *)

\* the documents a run has to bring to the target site, with their targets
Sources ==
    IF script = "github"
    THEN { [title |-> convert_path_to_title(f.path), content |-> f.content] :
             f \in { e \in UNION { {repo[d][i] : i \in DOMAIN repo[d]} :
                                   d \in DOMAIN repo } :
                       /\ e.type = "file"
                       /\ e.download_url
                       /\ convert_path_to_title(e.path) # <<>> } }
    ELSE { [title |-> docs[i][2], content |-> srcwiki[docs[i][1]]] :
             i \in { k \in DOMAIN docs : srcwiki[docs[k][1]] # Absent } }

\* no two documents with different content go to the same page
DistinctTargets == \A a, b \in Sources : a.title = b.title => a = b

FirstPassDone == pass > 1 \/ LoopFinished

\* C8: a failure at any step of one document is caught and reported, and
\* the loop goes on to the documents after it.
C8_FailuresContained ==
    /\ fault # "none" => reported
    /\ ~(aborted /\ idx <= Len(docs))

\* C10 as stated: a page that holds the source text is never written; after
\* a run whose saves all succeeded every target holds its source text, and
\* a repeated run saves nothing.
C10_Converges ==
    script \in {"github", "template"} =>
      /\ \A i \in DOMAIN saves :
           ~(saves[i].before # Absent /\ saves[i].before = saves[i].text)
      /\ (savesOk /\ FirstPassDone) =>
           \A d \in Sources : TextOf(wiki, d.title) = d.content
      /\ savesOk => \A i \in DOMAIN saves : saves[i].pass = 1

\* C10, amended: the same of a first pass in which no step failed and no
\* save was declined, over documents that do not collide on a target page.
C10_ConvergesWhenClean ==
    script \in {"github", "template"} =>
      /\ \A i \in DOMAIN saves :
           ~(saves[i].before # Absent /\ saves[i].before = saves[i].text)
      /\ (firstPassClean /\ DistinctTargets /\ FirstPassDone) =>
           \A d \in Sources : TextOf(wiki, d.title) = d.content
      /\ (firstPassClean /\ DistinctTargets) =>
           \A i \in DOMAIN saves : saves[i].pass = 1

C10_Witness ==
    /\ script \in {"github", "template"}
    /\ pass = MaxPasses
    /\ LoopFinished
    /\ firstPassClean
    /\ DistinctTargets
    /\ Cardinality(Sources) >= 2
    /\ Len(saves) >= 2
    /\ \E d \in Sources : wiki[d.title] = d.content /\ d.content # ""

=============================================================================
